---- MODULE Spec2Model ----
(***************************************************************************)
(* The meals API: src/src/routes/meals.ts (mealsRoutes) and                *)
(* src/unnamed/part_000 (usersRoutes).                                     *)
(*                                                                         *)
(* The two tables of the store are sequences of rows in store-native       *)
(* (insertion) order.  A handler is an async function: it runs from one    *)
(* `await knex(...)` to the next without interruption, so each action      *)
(* below is one such segment.  The query a segment issues executes in      *)
(* that segment; the continuation that follows the last query of a         *)
(* handler only sends the reply, and is part of the segment that ran the   *)
(* query.  `inflight[s]` is the position of the handler running in slot s  *)
(* with the locals it carries across its awaits.                           *)
(***************************************************************************)
EXTENDS Integers, Sequences, FiniteSets, TLC

VARIABLES
    users,      \* table users: rows [id, name, email, session_id]
    meals,      \* table meals: rows [id, name, description, is_on_diet, date, user_id]
    nextUuid,   \* number of randomUUID() calls made; the n-th call returns n
    inflight,   \* slot -> the handler's position and locals
    last,       \* the request answered by the last step, with its reply
    cookies,    \* sessionId cookie values the server has handed to clients
    deleted     \* history: ids of meal rows removed by DELETE /:id

vars == <<users, meals, nextUuid, inflight, last, cookies, deleted>>

\* Bounds of the model.
MaxUuid == 3
MaxInflight == 2

Slots == 1..MaxInflight

----------------------------------------------------------------------------
\* JSON values of a request body.

Str(s) == [t |-> "string", s |-> s]
Bool(b) == [t |-> "boolean", b |-> b]
\* A JSON number in the date field, in half milliseconds (3 is 1.5 ms).
Num(h) == [t |-> "number", halfMs |-> h]
Undefined == [t |-> "undefined"]

\* request.user?.id, attached by the checkSessionIdExists preHandler.
UserIds == {"u1", "u2"}

\* The :id path parameter: a UUID string (the n-th UUID) or another string.
PathIds == [uuid : {TRUE}, n : 1..MaxUuid] \cup {[uuid |-> FALSE, n |-> 0]}

MealBody(name, description, isOnDiet, date) ==
    [name |-> name, description |-> description, isOnDiet |-> isOnDiet, date |-> date]

\* Bodies the schema accepts: both flags on both dates, 1.5 ms and 2 ms.
ValidMealBodies ==
    { MealBody(Str("salad"), Str("lunch"), Bool(TRUE), Num(3)),
      MealBody(Str("pizza"), Str("dinner"), Bool(FALSE), Num(3)),
      MealBody(Str("soup"), Str("starter"), Bool(TRUE), Num(4)),
      MealBody(Str("cake"), Str("dessert"), Bool(FALSE), Num(4)) }

\* and two it refuses: no name, and a date that is no date.
MealBodies ==
    ValidMealBodies \cup
    { MealBody(Undefined, Str("lunch"), Bool(TRUE), Num(4)),
      MealBody(Str("salad"), Str("lunch"), Bool(TRUE), Str("soon")) }

\* z.string(), z.boolean()
ZString(x) == x.t = "string"
ZBoolean(x) == x.t = "boolean"

\* new Date(x).getTime() for the values above: a number is clipped to whole
\* milliseconds, a boolean is 0 or 1, anything else here is Invalid Date (-1).
GetTime(x) ==
    IF x.t = "number" THEN x.halfMs \div 2
    ELSE IF x.t = "boolean" THEN (IF x.b THEN 1 ELSE 0)
    ELSE -1

\* z.coerce.date(): new Date(x), refused when it is Invalid Date.
ZCoerceDate(x) == GetTime(x) >= 0

\* createMealBodySchema / putMealBodySchema .parse succeeds.
ParseMealBody(body) ==
    /\ ZString(body.name)
    /\ ZString(body.description)
    /\ ZBoolean(body.isOnDiet)
    /\ ZCoerceDate(body.date)

\* Faulty variant: the id schema is z.string(), without .uuid().
ZUuidAnyString(p) == TRUE

\* z.string().uuid()
ZUuid(p) == p.uuid

----------------------------------------------------------------------------
\* Queries on the meals table.

\* knex('meals').where({ user_id }).select()
WhereUser(u) == SelectSeq(meals, LAMBDA r : r.user_id = u)

\* knex('meals').where({ id }).first(): whether a row came back.
FirstById(id) == \E i \in DOMAIN meals : meals[i].id = id

\* knex('meals').where({ user_id, id }).select()
WhereUserAndId(u, id) == SelectSeq(meals, LAMBDA r : r.user_id = u /\ r.id = id)

\* knex('meals').where({ user_id, is_on_diet }).count('id').first()
CountWhere(u, flag) ==
    Cardinality({i \in DOMAIN meals : meals[i].user_id = u /\ meals[i].is_on_diet = flag})

\* Faulty variant: the date is stored as sent, without getTime().
NewMealRawDate(id, u, body) ==
    [id |-> id, name |-> body.name.s, description |-> body.description.s,
     is_on_diet |-> body.isOnDiet.b, date |-> body.date.halfMs, user_id |-> u]

\* The row a valid body inserts.
NewMeal(id, u, body) ==
    [id |-> id, name |-> body.name.s, description |-> body.description.s,
     is_on_diet |-> body.isOnDiet.b, date |-> GetTime(body.date), user_id |-> u]

\* Faulty variant: the update is scoped by id alone, like the existence check.
UpdateWhereById(u, id, body) ==
    [i \in DOMAIN meals |->
        IF meals[i].id = id
        THEN [meals[i] EXCEPT !.name = body.name.s, !.description = body.description.s,
                              !.is_on_diet = body.isOnDiet.b, !.date = GetTime(body.date)]
        ELSE meals[i]]

\* Faulty variant: the update leaves the date column out.
UpdateWhereKeepDate(u, id, body) ==
    [i \in DOMAIN meals |->
        IF meals[i].user_id = u /\ meals[i].id = id
        THEN [meals[i] EXCEPT !.name = body.name.s, !.description = body.description.s,
                              !.is_on_diet = body.isOnDiet.b]
        ELSE meals[i]]

\* knex('meals').where({ user_id, id }).update({ name, description, is_on_diet, date })
UpdateWhere(u, id, body) ==
    [i \in DOMAIN meals |->
        IF meals[i].user_id = u /\ meals[i].id = id
        THEN [meals[i] EXCEPT !.name = body.name.s, !.description = body.description.s,
                              !.is_on_diet = body.isOnDiet.b, !.date = GetTime(body.date)]
        ELSE meals[i]]

\* Faulty variant: the delete query is built without .delete(), so no row goes.
DeleteWhereNotRun(u, id) == meals

\* knex('meals').where({ user_id, id }).delete()
DeleteWhere(u, id) == SelectSeq(meals, LAMBDA r : ~(r.user_id = u /\ r.id = id))

\* The orders .orderBy('date', 'desc') may return rows in: rows of equal date
\* come in an order the store chooses.
OrderByDateDesc(rows) ==
    { [i \in DOMAIN rows |-> rows[p[i]]] :
        p \in { q \in [DOMAIN rows -> DOMAIN rows] :
                  /\ \A i, j \in DOMAIN rows : i # j => q[i] # q[j]
                  /\ \A i, j \in DOMAIN rows : i < j => rows[q[i]].date >= rows[q[j]].date } }

\* Faulty variant: an off-diet meal does not reset the running streak.
ReduceStepNoReset(acc, meal) ==
    LET cur == IF meal.is_on_diet THEN acc.currentSequence + 1 ELSE acc.currentSequence
    IN  [currentSequence |-> cur,
         bestOnDietSequence |-> IF cur > acc.bestOnDietSequence THEN cur ELSE acc.bestOnDietSequence]

\* The reducer of GET /metrics: one step of the fold.
ReduceStep(acc, meal) ==
    LET cur == IF meal.is_on_diet THEN acc.currentSequence + 1 ELSE 0
    IN  [currentSequence |-> cur,
         bestOnDietSequence |-> IF cur > acc.bestOnDietSequence THEN cur ELSE acc.bestOnDietSequence]

RECURSIVE Reduce(_, _)
Reduce(rows, acc) ==
    IF rows = <<>> THEN acc ELSE Reduce(Tail(rows), ReduceStep(acc, Head(rows)))

BestOnDietSequence(rows) ==
    Reduce(rows, [bestOnDietSequence |-> 0, currentSequence |-> 0]).bestOnDietSequence

----------------------------------------------------------------------------
Idle == [pc |-> "idle"]
None == [op |-> "none"]

Init ==
    /\ users = <<>>
    /\ meals = <<>>
    /\ nextUuid = 0
    /\ inflight = [s \in Slots |-> Idle]
    /\ last = None
    /\ cookies = {}
    /\ deleted = {}

\* POST /meals by user u with the given body (one query, lines 18-36).
CreateMeal(s, U, B) ==
    /\ inflight[s] = Idle
    /\ \E u \in U, body \in B :
        IF ParseMealBody(body)
        THEN /\ nextUuid < MaxUuid
             /\ nextUuid' = nextUuid + 1
             /\ meals' = Append(meals, NewMeal(nextUuid + 1, u, body))
             /\ last' = [op |-> "create", u |-> u, body |-> body, status |-> "201", queries |-> 1]
        ELSE /\ last' = [op |-> "create", u |-> u, body |-> body, status |-> "ZodError", queries |-> 0]
             /\ UNCHANGED <<meals, nextUuid>>
    /\ UNCHANGED <<users, inflight, cookies, deleted>>

\* GET /meals (lines 44-51).
ListMeals(s, U) ==
    /\ inflight[s] = Idle
    /\ \E u \in U :
        last' = [op |-> "list", u |-> u, status |-> "200", rows |-> WhereUser(u), queries |-> 1]
    /\ UNCHANGED <<users, meals, nextUuid, inflight, cookies, deleted>>

\* A step that sends no reply.
Await(s, ctx) ==
    /\ inflight' = [inflight EXCEPT ![s] = ctx]
    /\ last' = None

\* A step that sends the reply and ends the handler.
Reply(s, r) ==
    /\ inflight' = [inflight EXCEPT ![s] = Idle]
    /\ last' = r

\* GET /meals/metrics, first query: the on-diet count (lines 61-66).
MetricsOnDiet(s, U) ==
    /\ inflight[s] = Idle
    /\ \E u \in U :
        Await(s, [pc |-> "metrics_off", u |-> u, mealsOnDiet |-> CountWhere(u, TRUE)])
    /\ UNCHANGED <<users, meals, nextUuid, cookies, deleted>>

\* GET /meals/metrics, second query: the off-diet count (lines 68-73).
MetricsOffDiet(s) ==
    /\ inflight[s].pc = "metrics_off"
    /\ Await(s, [pc |-> "metrics_list", u |-> inflight[s].u,
                 mealsOnDiet |-> inflight[s].mealsOnDiet,
                 mealsOffDiet |-> CountWhere(inflight[s].u, FALSE)])
    /\ UNCHANGED <<users, meals, nextUuid, cookies, deleted>>

\* GET /meals/metrics, third query, the reduce and the reply (lines 75-104).
MetricsReply(s) ==
    /\ inflight[s].pc = "metrics_list"
    /\ \E rows \in OrderByDateDesc(WhereUser(inflight[s].u)) :
        Reply(s, [op |-> "metrics", u |-> inflight[s].u, status |-> "200", rows |-> rows,
                  totalMeals |-> Len(rows),
                  totalMealsOnDiet |-> inflight[s].mealsOnDiet,
                  totalMealsOffDiet |-> inflight[s].mealsOffDiet,
                  bestOnDietSequence |-> BestOnDietSequence(rows),
                  queries |-> 3])
    /\ UNCHANGED <<users, meals, nextUuid, cookies, deleted>>

\* The params parse and the lookup by id alone that GET, PUT and DELETE /:id
\* start with; `next` is the position of the continuation.
Lookup(s, U, op, next) ==
    /\ inflight[s] = Idle
    /\ \E u \in U, p \in PathIds :
        IF ZUuid(p)
        THEN Await(s, [pc |-> next, u |-> u, id |-> p, meal |-> FirstById(p.n)])
        ELSE Reply(s, [op |-> op, u |-> u, id |-> p, status |-> "ZodError", queries |-> 0])
    /\ UNCHANGED <<users, meals, nextUuid, cookies, deleted>>

\* GET /meals/:id, lines 113-119.
GetMealLookup(s, U) == Lookup(s, U, "get", "get_found")

\* GET /meals/:id, lines 121-131.
GetMealReply(s) ==
    /\ inflight[s].pc = "get_found"
    /\ LET c == inflight[s] IN
        IF ~c.meal
        THEN Reply(s, [op |-> "get", u |-> c.u, id |-> c.id, status |-> "404", queries |-> 1])
        ELSE Reply(s, [op |-> "get", u |-> c.u, id |-> c.id, status |-> "200",
                       rows |-> WhereUserAndId(c.u, c.id.n), queries |-> 2])
    /\ UNCHANGED <<users, meals, nextUuid, cookies, deleted>>

\* PUT /meals/:id, lines 140-153.
PutMealLookup(s, U) == Lookup(s, U, "put", "put_found")

\* PUT /meals/:id, lines 155-172: the body is parsed only here.
PutMealReply(s, B) ==
    /\ inflight[s].pc = "put_found"
    /\ LET c == inflight[s] IN
        IF ~c.meal
        THEN /\ Reply(s, [op |-> "put", u |-> c.u, id |-> c.id, status |-> "404", queries |-> 1])
             /\ UNCHANGED meals
        ELSE \E body \in B :
            IF ParseMealBody(body)
            THEN /\ meals' = UpdateWhere(c.u, c.id.n, body)
                 /\ Reply(s, [op |-> "put", u |-> c.u, id |-> c.id, body |-> body,
                              status |-> "200", queries |-> 2])
            ELSE /\ Reply(s, [op |-> "put", u |-> c.u, id |-> c.id, body |-> body,
                              status |-> "ZodError", queries |-> 1])
                 /\ UNCHANGED meals
    /\ UNCHANGED <<users, nextUuid, cookies, deleted>>

\* DELETE /meals/:id, lines 181-187.
DeleteMealLookup(s, U) == Lookup(s, U, "delete", "delete_found")

\* DELETE /meals/:id, lines 189-199.
DeleteMealReply(s) ==
    /\ inflight[s].pc = "delete_found"
    /\ LET c == inflight[s] IN
        IF ~c.meal
        THEN /\ Reply(s, [op |-> "delete", u |-> c.u, id |-> c.id, status |-> "404", queries |-> 1])
             /\ UNCHANGED <<meals, deleted>>
        ELSE /\ meals' = DeleteWhere(c.u, c.id.n)
             /\ deleted' = IF WhereUserAndId(c.u, c.id.n) # <<>>
                           THEN deleted \cup {c.id.n} ELSE deleted
             /\ Reply(s, [op |-> "delete", u |-> c.u, id |-> c.id, status |-> "200", queries |-> 2])
    /\ UNCHANGED <<users, nextUuid, cookies>>

\* The meals routes, for the callers U sending the bodies B on slot s.
MealsStep(s, U, B) ==
    \/ CreateMeal(s, U, B)
    \/ ListMeals(s, U)
    \/ MetricsOnDiet(s, U)
    \/ MetricsOffDiet(s)
    \/ MetricsReply(s)
    \/ GetMealLookup(s, U)
    \/ GetMealReply(s)
    \/ PutMealLookup(s, U)
    \/ PutMealReply(s, B)
    \/ DeleteMealLookup(s, U)
    \/ DeleteMealReply(s)

\* One request at a time: every handler runs to its reply before the next starts.
NextMeals == MealsStep(1, UserIds, MealBodies)

SpecMeals == Init /\ [][NextMeals]_vars

----------------------------------------------------------------------------
\* The users routes.

UserBody(name, email) == [name |-> name, email |-> email]

UserBodies ==
    { UserBody(Str(n), Str(e)) : n \in {"ann", "bob"}, e \in {"a@x", "b@x"} }
        \cup { UserBody(Str("ann"), Undefined), UserBody(Undefined, Str("a@x")) }

\* createUserBodySchema.parse succeeds.
ParseUserBody(body) == ZString(body.name) /\ ZString(body.email)

\* request.cookies.sessionId: absent (<<>>), a value the server handed out, or
\* a value the client made up (0, which randomUUID never returns).
CookieInputs == {<<>>} \cup { <<c>> : c \in cookies \cup {0} }

\* knex('users').where('session_id', sessionId).select()
WhereSession(sessionId) == SelectSeq(users, LAMBDA r : r.session_id = sessionId)

\* Faulty variant: the lookup filters on { name: email }.
FirstByName(email) == \E i \in DOMAIN users : users[i].name = email

\* knex('users').where({ email }).first(): whether a row came back.
FirstByEmail(email) == \E i \in DOMAIN users : users[i].email = email

\* The row POST /users inserts.
NewUser(id, name, email, sessionId) ==
    [id |-> id, name |-> name, email |-> email, session_id |-> sessionId]

\* GET /users (lines 13-21); knex refuses an undefined binding.
ListUser(s) ==
    /\ inflight[s] = Idle
    /\ \E cookie \in CookieInputs :
        IF cookie = <<>>
        THEN last' = [op |-> "listUser", cookie |-> cookie, status |-> "Error", queries |-> 0]
        ELSE last' = [op |-> "listUser", cookie |-> cookie, status |-> "200",
                      rows |-> WhereSession(cookie[1]), queries |-> 1]
    /\ UNCHANGED <<users, meals, nextUuid, inflight, cookies, deleted>>

\* POST /users, lines 25-43: the session id, the body parse, the lookup by email.
RegisterLookup(s, B) ==
    /\ inflight[s] = Idle
    /\ nextUuid < MaxUuid
    /\ \E cookie \in CookieInputs, body \in B :
        LET fresh == cookie = <<>>
            sessionId == IF fresh THEN nextUuid + 1 ELSE cookie[1]
        IN  /\ nextUuid' = IF fresh THEN nextUuid + 1 ELSE nextUuid
            /\ IF ParseUserBody(body)
               THEN /\ Await(s, [pc |-> "register_found", cookie |-> cookie, body |-> body,
                                 sessionId |-> sessionId,
                                 userByEmail |-> FirstByEmail(body.email.s)])
                    /\ UNCHANGED cookies
               ELSE /\ Reply(s, [op |-> "register", cookie |-> cookie, body |-> body,
                                 sessionId |-> sessionId, status |-> "ZodError", queries |-> 0])
                    /\ cookies' = IF fresh THEN cookies \cup {sessionId} ELSE cookies
    /\ UNCHANGED <<users, meals, deleted>>

\* POST /users, lines 45-56: the reply carries the cookie set at line 35.
RegisterReply(s) ==
    /\ inflight[s].pc = "register_found"
    /\ LET c == inflight[s] IN
        /\ IF c.userByEmail
           THEN /\ Reply(s, [op |-> "register", cookie |-> c.cookie, body |-> c.body,
                             sessionId |-> c.sessionId, status |-> "400", queries |-> 1])
                /\ UNCHANGED <<users, nextUuid>>
           ELSE /\ users' = Append(users, NewUser(nextUuid + 1, c.body.name.s, c.body.email.s,
                                                  c.sessionId))
                /\ nextUuid' = nextUuid + 1
                /\ Reply(s, [op |-> "register", cookie |-> c.cookie, body |-> c.body,
                             sessionId |-> c.sessionId, status |-> "201", queries |-> 2])
        /\ cookies' = IF c.cookie = <<>> THEN cookies \cup {c.sessionId} ELSE cookies
    /\ UNCHANGED <<meals, deleted>>

UsersStep(s, B) ==
    \/ ListUser(s)
    \/ RegisterLookup(s, B)
    \/ RegisterReply(s)

\* One request at a time.
NextUsers == UsersStep(1, UserBodies)

SpecUsers == Init /\ [][NextUsers]_vars

----------------------------------------------------------------------------
\* Requests handled independently: the segments of the handlers in flight
\* interleave at their awaits.

NextUsersConc == \E s \in Slots : UsersStep(s, UserBodies)

SpecUsersConc == Init /\ [][NextUsersConc]_vars

\* The meals routes called concurrently by one user.
NextMealsConc == \E s \in Slots : MealsStep(s, {"u1"}, MealBodies)

SpecMealsConc == Init /\ [][NextMealsConc]_vars

----------------------------------------------------------------------------
\* Properties of the meals routes, one request at a time (SpecMeals).

\* The whole milliseconds of a JSON number given in half milliseconds.
IsEpochMsOf(ms, x) == x.t = "number" /\ 2 * ms <= x.halfMs /\ x.halfMs < 2 * ms + 2

\* Row r holds exactly the fields of body, for user u.
Matches(r, u, body) ==
    /\ r.name = body.name.s
    /\ r.description = body.description.s
    /\ r.is_on_diet = body.isOnDiet.b
    /\ IsEpochMsOf(r.date, body.date)
    /\ r.user_id = u

MealIds == {meals[i].id : i \in DOMAIN meals}

\* C1: a successful Create appends to the caller's list exactly one record,
\* with a new id, the submitted name, description and flag, the date in epoch
\* milliseconds and the caller as owner; every other user's list is as before.
\* Every body the schema accepts is answered 201.
C1_CreateAddsOneRecord ==
    [][\A u \in UserIds : (last'.op = "create" /\ last'.u = u) =>
        /\ last'.body \in ValidMealBodies <=> last'.status = "201"
        /\ last'.status = "201" =>
            /\ \E r \in {meals'[i] : i \in DOMAIN meals'} :
                /\ WhereUser(u)' = Append(WhereUser(u), r)
                /\ Matches(r, u, last'.body)
                /\ r.id \notin MealIds
            /\ \A v \in UserIds \ {u} : WhereUser(v)' = WhereUser(v)]_vars

\* A Create has just answered 201 for a user who already had a meal, while
\* another user has one too.
C1_Witness ==
    /\ last.op = "create"
    /\ last.status = "201"
    /\ Len(WhereUser(last.u)) >= 2
    /\ \E v \in UserIds \ {last.u} : WhereUser(v) # <<>>

\* The longest run of consecutive on-diet rows of a list, from its definition.
LongestRun(rows) ==
    LET runs == { p \in (DOMAIN rows) \X (DOMAIN rows) :
                    p[1] <= p[2] /\ \A k \in p[1]..p[2] : rows[k].is_on_diet }
        lens == { p[2] - p[1] + 1 : p \in runs }
    IN  IF lens = {} THEN 0 ELSE CHOOSE n \in lens : \A m \in lens : m <= n

\* rows is the caller's meals in an order of descending date.
IsDateDescOf(rows, u) ==
    /\ Len(rows) = Len(WhereUser(u))
    /\ {rows[i] : i \in DOMAIN rows} = {meals[i] : i \in {j \in DOMAIN meals : meals[j].user_id = u}}
    /\ \A i, j \in DOMAIN rows : i < j => rows[i].date >= rows[j].date

OnDiet(b) == [is_on_diet |-> b]

\* C5: bestOnDietSequence is the longest run of on-diet meals of the caller's
\* meals in descending date order (3 for the list of section 8), totalMeals
\* is their number, and a user without meals gets four zeros.
C5_MetricsBestSequence ==
    /\ BestOnDietSequence(<<OnDiet(TRUE), OnDiet(TRUE), OnDiet(FALSE), OnDiet(TRUE),
                            OnDiet(TRUE), OnDiet(TRUE), OnDiet(FALSE)>>) = 3
    /\ last.op = "metrics" =>
        /\ IsDateDescOf(last.rows, last.u)
        /\ last.bestOnDietSequence = LongestRun(last.rows)
        /\ last.totalMeals = Cardinality({i \in DOMAIN meals : meals[i].user_id = last.u})
        /\ (\A i \in DOMAIN meals : meals[i].user_id # last.u) =>
            /\ last.totalMeals = 0
            /\ last.totalMealsOnDiet = 0
            /\ last.totalMealsOffDiet = 0
            /\ last.bestOnDietSequence = 0

\* Metrics answered for on-diet, off-diet, on-diet in descending date order:
\* the best run is 1 of 2 on-diet meals.
C5_Witness ==
    /\ last.op = "metrics"
    /\ Len(last.rows) = 3
    /\ last.rows[1].is_on_diet /\ ~last.rows[2].is_on_diet /\ last.rows[3].is_on_diet
    /\ last.bestOnDietSequence = 1

\* The id of the PUT just answered names a row of another user.
PutOnForeignRow ==
    /\ last'.op = "put"
    /\ last'.id.uuid
    /\ \E i \in DOMAIN meals : meals[i].id = last'.id.n /\ meals[i].user_id # last'.u

\* C6: an Update with a valid payload on an existing meal of another user
\* answers 200 and changes no row of the table.
C6_UpdateForeignIsNoOp ==
    [][(PutOnForeignRow /\ last'.body \in ValidMealBodies) =>
        (last'.status = "200" /\ meals' = meals)]_vars

\* A PUT by a non-owner has just answered 200 with a body that differs from
\* the row it names.
C6_Witness ==
    /\ last.op = "put"
    /\ last.status = "200"
    /\ \E i \in DOMAIN meals :
        /\ meals[i].id = last.id.n
        /\ meals[i].user_id # last.u
        /\ meals[i].name # last.body.name.s

\* C7: a meal its owner deleted is in no later List, and Get by id answers
\* 404 when no row has the id, and 200 with an empty list when the id is
\* only another user's.
C7_DeleteRemoves ==
    /\ \A i \in DOMAIN meals : meals[i].id \notin deleted
    /\ last.op = "list" => \A i \in DOMAIN last.rows : last.rows[i].id \notin deleted
    /\ (last.op = "get" /\ last.id.uuid) =>
        /\ last.id.n \notin MealIds => last.status = "404"
        /\ last.id.n \in MealIds =>
            /\ last.status = "200"
            /\ \A i \in DOMAIN last.rows :
                last.rows[i].id = last.id.n /\ last.rows[i].user_id = last.u
            /\ (\A i \in DOMAIN meals : meals[i].id = last.id.n => meals[i].user_id # last.u)
                => last.rows = <<>>

\* Get by id has just answered 404 for a deleted meal while other meals remain.
C7_Witness ==
    /\ last.op = "get"
    /\ last.id.n \in deleted
    /\ last.status = "404"
    /\ meals # <<>>

\* C8: Get by id, Update and Delete with an id that is no UUID end in a
\* validation error with no query issued and the meals table as it was.
C8_InvalidIdNoStoreAccess ==
    [][(last'.op \in {"get", "put", "delete"} /\ ~last'.id.uuid) =>
        /\ last'.status = "ZodError"
        /\ last'.queries = 0
        /\ inflight' = inflight
        /\ meals' = meals]_vars

\* A Delete with an id that is no UUID was refused while the table has rows.
C8_Witness ==
    /\ last.op = "delete"
    /\ ~last.id.uuid
    /\ last.status = "ZodError"
    /\ meals # <<>>

\* The id of the PUT just answered names a row of the caller.
PutOnOwnRow ==
    /\ last'.op = "put"
    /\ last'.id.uuid
    /\ \E i \in DOMAIN meals : meals[i].id = last'.id.n /\ meals[i].user_id = last'.u

\* C9: an Update by the owner with a valid payload answers 200 and replaces
\* name, description, is_on_diet and date (epoch milliseconds) of the row with
\* that id and owner, keeping its id, its user_id and every other row; and no
\* step changes the user_id of a row, which is the caller of its Create.
C9_UpdateReplacesFields ==
    [][/\ (PutOnOwnRow /\ last'.body \in ValidMealBodies) =>
            /\ last'.status = "200"
            /\ DOMAIN meals' = DOMAIN meals
            /\ \A i \in DOMAIN meals :
                IF meals[i].id = last'.id.n /\ meals[i].user_id = last'.u
                THEN /\ Matches(meals'[i], last'.u, last'.body)
                     /\ meals'[i].id = meals[i].id
                ELSE meals'[i] = meals[i]
       /\ \A j \in DOMAIN meals' :
            IF meals'[j].id \in MealIds
            THEN \A i \in DOMAIN meals :
                    meals[i].id = meals'[j].id => meals[i].user_id = meals'[j].user_id
            ELSE last'.op = "create" /\ meals'[j].user_id = last'.u]_vars

\* A PUT by the owner has just answered 200 and the row holds the new name
\* beside a row it did not touch.
C9_Witness ==
    /\ last.op = "put"
    /\ last.status = "200"
    /\ Len(meals) >= 2
    /\ \E i \in DOMAIN meals :
        /\ meals[i].id = last.id.n
        /\ meals[i].user_id = last.u
        /\ meals[i].name = last.body.name.s
        /\ meals[i].date = 1

----------------------------------------------------------------------------
\* Properties of the users routes.

UserEmails == {users[i].email : i \in DOMAIN users}

\* C2: a Register whose body passes the schema and whose email is already in
\* the users table answers 400 and leaves the table as it was.
C2_DuplicateEmailRefused ==
    [][(/\ last'.op = "register"
        /\ ZString(last'.body.name) /\ ZString(last'.body.email)
        /\ last'.body.email.s \in UserEmails) =>
            /\ last'.status = "400"
            /\ users' = users
            /\ inflight'[1] = Idle]_vars

\* A Register was refused for an email that another name already holds.
C2_Witness ==
    /\ last.op = "register"
    /\ last.status = "400"
    /\ \E i \in DOMAIN users :
        users[i].email = last.body.email.s /\ users[i].name # last.body.name.s

\* C3: no two rows of the users table have the same email.
C3_EmailUnique ==
    \A i, j \in DOMAIN users : users[i].email = users[j].email => i = j

\* C4: no two rows of the users table have the same session_id, and List
\* current user returns at most one row.
C4_SessionIdentifiesOneUser ==
    /\ \A i, j \in DOMAIN users : users[i].session_id = users[j].session_id => i = j
    /\ (last.op = "listUser" /\ last.status = "200") => Len(last.rows) <= 1

\* C10: the figures of a metrics reply agree with each other.
C10_MetricsConsistent ==
    last.op = "metrics" =>
        /\ last.totalMeals = last.totalMealsOnDiet + last.totalMealsOffDiet
        /\ last.bestOnDietSequence <= last.totalMealsOnDiet

====
